---- MODULE Spec2Model ----
(***************************************************************************)
(* Model of lsst.pipe.tasks: CoaddArgumentParser.parse_args                *)
(* (coaddArgumentParser.py) and the qaTimeout decorator (qaTimeout.py).    *)
(*                                                                         *)
(* Python floats are modelled as fixed-point integers counting hundredths  *)
(* (0.14 is 14, 3.5 is 350).  An afwGeom.Angle is an integer number of     *)
(* hundredths of an arcsecond.  A Point2D pixel position is an integer     *)
(* number of half pixels, so that the Point2D -> Point2I conversion        *)
(* rounds.  An optional value (Python None or a value) is the empty        *)
(* sequence or a one-element sequence.                                     *)
(***************************************************************************)
EXTENDS Integers, Sequences, FiniteSets, TLC

VARIABLES pc, cmdline, namespace, raised, tractQueries,
          tpc, timeout, errMsg, handler, alarm, elapsed,
          funcStatus, funcValue, finishedAt, firedAt, outcome

parseVars == <<pc, cmdline, namespace, raised, tractQueries>>
timeVars == <<tpc, timeout, errMsg, handler, alarm, elapsed,
              funcStatus, funcValue, finishedAt, firedAt, outcome>>
vars == <<pc, cmdline, namespace, raised, tractQueries,
          tpc, timeout, errMsg, handler, alarm, elapsed,
          funcStatus, funcValue, finishedAt, firedAt, outcome>>

\* ------------------------------------------------------------------------
\* Bounds of the model
\* ------------------------------------------------------------------------
MaxSize == 3
MaxLlc == 2
NumTracts == 2
MaxTimeout == 3
MaxTicks == 4

\* ------------------------------------------------------------------------
\* Optional values
\* ------------------------------------------------------------------------
None == <<>>

Some(v) == <<v>>

IsNone(x) == Len(x) = 0

Val(x) == x[1]

\* ------------------------------------------------------------------------
\* Namespace objects: a function from attribute names to values
\* ------------------------------------------------------------------------
SetAttr(ns, a, v) == [k \in (DOMAIN ns) \cup {a} |-> IF k = a THEN v ELSE ns[k]]

DelAttr(ns, a) == [k \in (DOMAIN ns) \ {a} |-> ns[k]]

\* ------------------------------------------------------------------------
\* afwGeom / afwCoord values used by parse_args
\* ------------------------------------------------------------------------
arcseconds == 1

degrees == 3600

Angle(value, units) == value * units

IcrsCoord(ra, dec) == [ra |-> ra, dec |-> dec]

Extent2I(x, y) == <<x, y>>

Point2I(x, y) == <<x, y>>

\* Point2I(Point2D): rounds each coordinate to the nearest pixel index
Point2IFromPoint2D(p) == <<(p[1] + 1) \div 2, (p[2] + 1) \div 2>>

Box2I(minimum, dimensions) == [min |-> minimum, dims |-> dimensions]

\* dimensions / 2
HalfExtentWhole(dimensions) == <<dimensions[1], dimensions[2]>>

HalfExtent(dimensions) == <<dimensions[1] \div 2, dimensions[2] \div 2>>

PointMinusExtent(p, e) == <<p[1] - e[1], p[2] - e[2]>>

\* ------------------------------------------------------------------------
\* lsst.skymap: a sky map of NumTracts tracts whose centres lie one degree
\* apart on the equator; each tract has its own WCS centred on the tract
\* ------------------------------------------------------------------------
TractIds == 0 .. (NumTracts - 1)

SkyMap(projection, pixelScale, overlap) ==
    [projection |-> projection, pixelScale |-> pixelScale, overlap |-> overlap]

TractCtrCoord(tractId) == IcrsCoord(Angle(100 * tractId, degrees), Angle(0, degrees))

Abs(x) == IF x < 0 THEN -x ELSE x

SkyDist(a, b) == Abs(a.ra - b.ra) + Abs(a.dec - b.dec)

getSkyTractId(skyMap, coord) ==
    CHOOSE t \in TractIds :
        \A u \in TractIds :
            \/ SkyDist(coord, TractCtrCoord(t)) < SkyDist(coord, TractCtrCoord(u))
            \/ (SkyDist(coord, TractCtrCoord(t)) = SkyDist(coord, TractCtrCoord(u)) /\ t <= u)

getSkyTractInfo(skyMap, tractId) ==
    [tractId |-> tractId,
     ctrCoord |-> TractCtrCoord(tractId),
     wcs |-> [tractId |-> tractId,
              crval |-> TractCtrCoord(tractId),
              cdelt |-> skyMap.pixelScale,
              projection |-> skyMap.projection],
     overlap |-> skyMap.overlap]

getWcs(skyTractInfo) == skyTractInfo.wcs

getCtrCoord(skyTractInfo) == skyTractInfo.ctrCoord

\* wcs.skyToPixel: a Point2D, in half pixels
skyToPixel(wcs, coord) ==
    <<(2 * (coord.ra - wcs.crval.ra)) \div wcs.cdelt,
      (2 * (coord.dec - wcs.crval.dec)) \div wcs.cdelt>>

\* ------------------------------------------------------------------------
\* CoaddArgumentParser: command lines and the base parser
\* ------------------------------------------------------------------------
Cameras == {"lsstSim", "suprimecam", "other"}

_DefaultScale(camera) ==
    CASE camera = "lsstSim" -> Some(14)
      [] camera = "suprimecam" -> Some(14)
      [] OTHER -> None

_DefaultOverlap(camera) ==
    CASE camera = "lsstSim" -> Some(350)
      [] camera = "suprimecam" -> Some(150)
      [] OTHER -> None

Opt(S) == {None} \cup {Some(v) : v \in S}

RaDecValues == {<<0, 0>>, <<3, 5>>, <<98, 0>>, <<101, -7>>}

LlcValues == {<<x, y>> : x \in {-MaxLlc, 0, MaxLlc}, y \in {-1, MaxLlc}}

\* pixel extents of at least one pixel on each axis
SizeValues == (1 .. MaxSize) \X (1 .. MaxSize)

CommandLines ==
    [camera : Cameras,
     fwhm : Opt({150}),
     radec : Opt(RaDecValues),
     tract : Opt(TractIds),
     llc : Opt(LlcValues),
     size : Opt(SizeValues),
     projection : Opt({"TAN"}),
     scale : Opt({20}),
     overlap : Opt({200})]

\* handleCamera: --scale and --overlap are required when the camera has no
\* default scale
ScaleRequired(camera) == IsNone(_DefaultScale(camera))

OverlapRequired(camera) == IsNone(_DefaultScale(camera))

\* the command lines argparse accepts
BaseAccepts(cmd) ==
    /\ ScaleRequired(cmd.camera) => ~IsNone(cmd.scale)
    /\ OverlapRequired(cmd.camera) => ~IsNone(cmd.overlap)

OrDefault(opt, default) == IF IsNone(opt) THEN default ELSE Val(opt)

\* the namespace pipeBase.ArgumentParser.parse_args returns
BaseParseArgs(cmd) ==
    [camera |-> cmd.camera,
     fwhm |-> OrDefault(cmd.fwhm, 0),
     radec |-> cmd.radec,
     tract |-> cmd.tract,
     llc |-> cmd.llc,
     size |-> cmd.size,
     projection |-> OrDefault(cmd.projection, "STG"),
     scale |-> IF IsNone(cmd.scale) THEN Val(_DefaultScale(cmd.camera)) ELSE Val(cmd.scale),
     overlap |-> IF IsNone(cmd.overlap) THEN Val(_DefaultOverlap(cmd.camera)) ELSE Val(cmd.overlap)]

\* ------------------------------------------------------------------------
\* CoaddArgumentParser.parse_args, step by step
\* ------------------------------------------------------------------------
MakeSkyMap(ns) ==
    SetAttr(ns, "skyMap",
            SkyMap(ns.projection, Angle(ns.scale, arcseconds), Angle(ns.overlap, degrees)))

ConvertRadec(ns) ==
    IF ~IsNone(ns.radec)
    THEN SetAttr(ns, "radec",
                 Some(IcrsCoord(Angle(Val(ns.radec)[1], degrees), Angle(Val(ns.radec)[2], degrees))))
    ELSE ns

TractMissingAlways(ns) == IsNone(ns.radec)

TractMissing(ns) == IsNone(ns.tract) /\ IsNone(ns.radec)

\* lines 123-127: the tract given, else the one the sky map chooses; lookups
\* are the coordinates passed to skyMap.getSkyTractId
ChooseTractPreferRadec(ns) ==
    IF ~IsNone(ns.radec)
    THEN [tractId |-> getSkyTractId(ns.skyMap, Val(ns.radec)), lookups |-> <<Val(ns.radec)>>]
    ELSE [tractId |-> Val(ns.tract), lookups |-> <<>>]

ChooseTract(ns) ==
    IF IsNone(ns.tract)
    THEN [tractId |-> getSkyTractId(ns.skyMap, Val(ns.radec)), lookups |-> <<Val(ns.radec)>>]
    ELSE [tractId |-> Val(ns.tract), lookups |-> <<>>]

SetTract(ns) ==
    LET info == getSkyTractInfo(ns.skyMap, ChooseTract(ns).tractId)
    IN  SetAttr(SetAttr(ns, "skyTractInfo", info), "wcs", getWcs(info))

LlcMissing(ns) == IsNone(ns.llc) /\ IsNone(ns.radec)

CtrPixInd(ns) == Point2IFromPoint2D(skyToPixel(ns.wcs, Val(ns.radec)))

LlcPixIndPreferRadec(ns, dimensions) ==
    IF IsNone(ns.radec)
    THEN Point2I(Val(ns.llc)[1], Val(ns.llc)[2])
    ELSE PointMinusExtent(CtrPixInd(ns), HalfExtent(dimensions))

LlcPixInd(ns, dimensions) ==
    IF ~IsNone(ns.llc)
    THEN Point2I(Val(ns.llc)[1], Val(ns.llc)[2])
    ELSE PointMinusExtent(CtrPixInd(ns), HalfExtent(dimensions))

SetBBox(ns, dimensions) ==
    LET withBox == SetAttr(ns, "bbox", Box2I(LlcPixInd(ns, dimensions), dimensions))
    IN  IF IsNone(withBox.radec)
        THEN SetAttr(withBox, "radec", Some(getCtrCoord(withBox.skyTractInfo)))
        ELSE withBox

DelOptionsKeepTract(ns) ==
    DelAttr(DelAttr(DelAttr(DelAttr(DelAttr(ns, "llc"), "size"), "scale"), "projection"), "overlap")

DelOptions(ns) ==
    DelAttr(DelAttr(DelAttr(DelAttr(DelAttr(DelAttr(ns, "llc"), "size"), "scale"),
                            "projection"), "overlap"), "tract")

RuntimeError(msg) == [type |-> "RuntimeError", msg |-> msg]

TypeError(msg) == [type |-> "TypeError", msg |-> msg]

Raise(exc) ==
    /\ pc' = "raised"
    /\ raised' = Some(exc)
    /\ namespace' = None

Return(ns) ==
    /\ pc' = "returned"
    /\ raised' = None
    /\ namespace' = Some(ns)

ParseArgs ==
    /\ pc = "idle"
    /\ \E cmd \in CommandLines :
        /\ BaseAccepts(cmd)
        /\ cmdline' = Some(cmd)
        /\ LET ns == ConvertRadec(MakeSkyMap(BaseParseArgs(cmd)))
           IN  IF IsNone(ns.size)
               THEN /\ Raise(TypeError("'NoneType' object has no attribute '__getitem__'"))
                    /\ tractQueries' = <<>>
               ELSE LET dimensions == Extent2I(Val(ns.size)[1], Val(ns.size)[2])
                    IN  IF TractMissing(ns)
                        THEN /\ Raise(RuntimeError("Must specify tract or radec"))
                             /\ tractQueries' = <<>>
                        ELSE /\ tractQueries' = ChooseTract(ns).lookups
                             /\ IF LlcMissing(SetTract(ns))
                                THEN Raise(RuntimeError("Must specify llc or radec"))
                                ELSE Return(DelOptions(SetBBox(SetTract(ns), dimensions)))
    /\ UNCHANGED timeVars

\* ------------------------------------------------------------------------
\* qaTimeout: one call of a decorated function
\* ------------------------------------------------------------------------
Timeouts == 0 .. MaxTimeout

ErrMsgs == {"Timer expired", "too slow"}

FuncResults == {"r1", "r2"}

FuncExceptions == {[type |-> "ValueError", msg |-> "bad"]}

TimeoutError(msg) == [type |-> "TimeoutError", msg |-> msg]

Returned(v) == [kind |-> "return", value |-> v]

Raised(e) == [kind |-> "raise", value |-> e]

\* wrapper, lines 19-20: install the handler and arm the alarm
Call ==
    /\ tpc = "idle"
    /\ \E t \in Timeouts, m \in ErrMsgs :
        /\ timeout' = t
        /\ errMsg' = m
        /\ alarm' = t
    /\ handler' = "_timeoutHandler"
    /\ elapsed' = 0
    /\ tpc' = "try"
    /\ UNCHANGED <<funcStatus, funcValue, finishedAt, firedAt, outcome>>
    /\ UNCHANGED parseVars

\* line 23: func is entered
EnterFunc ==
    /\ tpc = "try"
    /\ tpc' = "func"
    /\ funcStatus' = "running"
    /\ UNCHANGED <<timeout, errMsg, handler, alarm, elapsed, funcValue, finishedAt, firedAt, outcome>>
    /\ UNCHANGED parseVars

\* line 23: func returns a value, which is bound to result
FuncReturn ==
    /\ tpc = "func"
    /\ \E r \in FuncResults : funcValue' = Some(Returned(r))
    /\ funcStatus' = "returned"
    /\ finishedAt' = elapsed
    /\ tpc' = "finally"
    /\ UNCHANGED <<timeout, errMsg, handler, alarm, elapsed, firedAt, outcome>>
    /\ UNCHANGED parseVars

\* line 23: func raises an exception of its own
FuncRaise ==
    /\ tpc = "func"
    /\ \E e \in FuncExceptions : funcValue' = Some(Raised(e))
    /\ funcStatus' = "raised"
    /\ finishedAt' = elapsed
    /\ tpc' = "finally"
    /\ UNCHANGED <<timeout, errMsg, handler, alarm, elapsed, firedAt, outcome>>
    /\ UNCHANGED parseVars

\* a second passes and the alarm, if armed, does not expire yet
Tick ==
    /\ tpc \in {"try", "func", "finally"}
    /\ elapsed < MaxTicks
    /\ alarm # 1
    /\ elapsed' = elapsed + 1
    /\ alarm' = IF alarm > 0 THEN alarm - 1 ELSE 0
    /\ UNCHANGED <<tpc, timeout, errMsg, handler, funcStatus, funcValue, finishedAt, firedAt, outcome>>
    /\ UNCHANGED parseVars

\* the alarm expires: SIGALRM is delivered and _timeoutHandler raises
\* (lines 13-16); inside func the exception passes through the finally
\* clause (line 25), elsewhere it leaves the wrapper directly
AlarmFires ==
    /\ tpc \in {"try", "func", "finally"}
    /\ elapsed < MaxTicks
    /\ alarm = 1
    /\ handler = "_timeoutHandler"
    /\ elapsed' = elapsed + 1
    /\ alarm' = 0
    /\ firedAt' = tpc
    /\ funcStatus' = IF tpc = "func" THEN "interrupted" ELSE funcStatus
    /\ outcome' = Some(Raised(TimeoutError(errMsg)))
    /\ tpc' = "done"
    /\ UNCHANGED <<timeout, errMsg, handler, funcValue, finishedAt>>
    /\ UNCHANGED parseVars

\* lines 25-27: alarm(0), then the result is returned or func's exception
\* continues to propagate
Finally ==
    /\ tpc = "finally"
    /\ alarm' = 0
    /\ outcome' = funcValue
    /\ tpc' = "done"
    /\ UNCHANGED <<timeout, errMsg, handler, elapsed, funcStatus, funcValue, finishedAt, firedAt>>
    /\ UNCHANGED parseVars

\* ------------------------------------------------------------------------
\* Specifications
\* ------------------------------------------------------------------------
Init ==
    /\ pc = "idle"
    /\ cmdline = None
    /\ namespace = None
    /\ raised = None
    /\ tractQueries = <<>>
    /\ tpc = "idle"
    /\ timeout = 0
    /\ errMsg = ""
    /\ handler = "SIG_DFL"
    /\ alarm = 0
    /\ elapsed = 0
    /\ funcStatus = "notcalled"
    /\ funcValue = None
    /\ finishedAt = 0
    /\ firedAt = "never"
    /\ outcome = None

NextParse == ParseArgs

NextTimeout ==
    \/ Call
    \/ EnterFunc
    \/ FuncReturn
    \/ FuncRaise
    \/ Tick
    \/ AlarmFires
    \/ Finally

Next == NextParse \/ NextTimeout

Spec == Init /\ [][Next]_vars

SpecParse == Init /\ [][NextParse]_vars

SpecTimeout == Init /\ [][NextTimeout]_vars

\* ------------------------------------------------------------------------
\* Properties of parse_args
\* ------------------------------------------------------------------------
Cmd == Val(cmdline)

NS == Val(namespace)

\* --radec as the coordinate parse_args builds from it
CmdCoord == IcrsCoord(Angle(Val(Cmd.radec)[1], degrees), Angle(Val(Cmd.radec)[2], degrees))

\* the tract parse_args is to use: --tract, else the sky map's choice
CmdTract == IF IsNone(Cmd.tract) THEN getSkyTractId(NS.skyMap, CmdCoord) ELSE Val(Cmd.tract)

CmdCtrPix ==
    Point2IFromPoint2D(skyToPixel(getWcs(getSkyTractInfo(NS.skyMap, CmdTract)), CmdCoord))

InBox(p, box) ==
    \A i \in 1 .. 2 : box.min[i] <= p[i] /\ p[i] < box.min[i] + box.dims[i]

\* C1: when --llc is omitted and --radec is given, the returned bbox has
\* the dimensions of --size and its lower-left corner is, on each axis, the
\* pixel index of the projection of radec through the chosen tract's WCS
\* minus size div 2; for every size >= 1 that centre pixel lies in the bbox.
C1_CenteredBBox ==
    (pc = "returned" /\ IsNone(Cmd.llc) /\ ~IsNone(Cmd.radec)) =>
        /\ NS.bbox.dims = Val(Cmd.size)
        /\ \A i \in 1 .. 2 : NS.bbox.min[i] = CmdCtrPix[i] - (Val(Cmd.size)[i] \div 2)
        /\ (\A i \in 1 .. 2 : Val(Cmd.size)[i] >= 1) => InBox(CmdCtrPix, NS.bbox)

C1_Witness ==
    /\ pc = "returned"
    /\ IsNone(Cmd.llc) /\ IsNone(Cmd.scale) /\ IsNone(Cmd.tract)
    /\ Cmd.radec = Some(<<3, 5>>)
    /\ Cmd.size = Some(<<3, 2>>)
    /\ CmdCtrPix = <<771, 1286>>
    /\ NS.bbox = Box2I(<<770, 1285>>, <<3, 2>>)

\* C2: when --llc is given, the returned bbox has its lower-left corner at
\* llc and the dimensions of --size, whatever --radec is.
C2_LlcBBox ==
    (pc = "returned" /\ ~IsNone(Cmd.llc)) =>
        /\ NS.bbox.min = Val(Cmd.llc)
        /\ NS.bbox.dims = Val(Cmd.size)

C2_Witness ==
    /\ pc = "returned"
    /\ Cmd.llc = Some(<<-MaxLlc, MaxLlc>>)
    /\ Cmd.radec = Some(<<3, 5>>)
    /\ Cmd.size = Some(<<1, 2>>)
    /\ NS.bbox = Box2I(<<-MaxLlc, MaxLlc>>, <<1, 2>>)
    /\ ~InBox(CmdCtrPix, NS.bbox)

\* C3: the tract used is --tract whenever it is given, and then the sky map
\* is not asked to choose one; when --tract is omitted it is the tract the
\* sky map returns for radec.  skyTractInfo and wcs are those of that tract.
C3_TractChoice ==
    /\ (pc # "idle" /\ ~IsNone(Cmd.tract)) => tractQueries = <<>>
    /\ pc = "returned" =>
        /\ ~IsNone(Cmd.tract) => NS.skyTractInfo.tractId = Val(Cmd.tract)
        /\ IsNone(Cmd.tract) =>
            /\ tractQueries = <<CmdCoord>>
            /\ NS.skyTractInfo.tractId = getSkyTractId(NS.skyMap, CmdCoord)
        /\ NS.skyTractInfo = getSkyTractInfo(NS.skyMap, CmdTract)
        /\ NS.wcs = getWcs(getSkyTractInfo(NS.skyMap, CmdTract))

C3_Witness ==
    /\ pc = "returned"
    /\ Cmd.tract = Some(0)
    /\ Cmd.radec = Some(<<98, 0>>)
    /\ getSkyTractId(NS.skyMap, CmdCoord) = 1
    /\ NS.skyTractInfo.tractId = 0
    /\ NS.wcs.tractId = 0
    /\ tractQueries = <<>>

\* C4: with --size given, parse_args raises RuntimeError exactly when
\* --radec is omitted and --tract or --llc is omitted: 'Must specify tract
\* or radec' when tract and radec are omitted, 'Must specify llc or radec'
\* when tract is given and llc and radec are omitted.  Otherwise it returns
\* a namespace, which always has bbox, wcs and skyTractInfo.
C4_Errors ==
    (pc # "idle" /\ ~IsNone(Cmd.size)) =>
        /\ pc = "raised" <=> (IsNone(Cmd.radec) /\ (IsNone(Cmd.tract) \/ IsNone(Cmd.llc)))
        /\ pc = "raised" => Val(raised).type = "RuntimeError"
        /\ (IsNone(Cmd.tract) /\ IsNone(Cmd.radec))
               <=> raised = Some(RuntimeError("Must specify tract or radec"))
        /\ (~IsNone(Cmd.tract) /\ IsNone(Cmd.llc) /\ IsNone(Cmd.radec))
               <=> raised = Some(RuntimeError("Must specify llc or radec"))
        /\ pc # "raised" =>
            /\ pc = "returned"
            /\ {"bbox", "wcs", "skyTractInfo"} \subseteq DOMAIN NS

C4_Witness ==
    /\ pc = "raised"
    /\ ~IsNone(Cmd.size) /\ ~IsNone(Cmd.llc)
    /\ IsNone(Cmd.tract) /\ IsNone(Cmd.radec)
    /\ raised = Some(RuntimeError("Must specify tract or radec"))
    /\ namespace = None

\* C5: every returned namespace has fwhm, radec, bbox, wcs, skyMap and
\* skyTractInfo, and has none of llc, size, scale, projection, overlap and
\* tract.
C5_Attributes ==
    pc = "returned" =>
        /\ {"fwhm", "radec", "bbox", "wcs", "skyMap", "skyTractInfo"} \subseteq DOMAIN NS
        /\ (DOMAIN NS) \cap {"llc", "size", "scale", "projection", "overlap", "tract"} = {}

C5_Witness ==
    /\ pc = "returned"
    /\ ~IsNone(Cmd.llc) /\ ~IsNone(Cmd.size) /\ ~IsNone(Cmd.scale)
    /\ ~IsNone(Cmd.projection) /\ ~IsNone(Cmd.overlap) /\ ~IsNone(Cmd.tract)
    /\ DOMAIN NS = {"camera", "fwhm", "radec", "bbox", "wcs", "skyMap", "skyTractInfo"}

\* C6: on every successful return, namespace.radec is the centre of the
\* coadd: its projection through namespace.wcs falls on the centre pixel of
\* namespace.bbox (lower-left corner plus size div 2).
C6_RadecIsCenter ==
    pc = "returned" =>
        \A i \in 1 .. 2 :
            Point2IFromPoint2D(skyToPixel(NS.wcs, Val(NS.radec)))[i]
                = NS.bbox.min[i] + (NS.bbox.dims[i] \div 2)

\* ------------------------------------------------------------------------
\* Properties of qaTimeout
\* ------------------------------------------------------------------------
\* the call ends as func ended: with its result or with its exception
DeliversFuncValue ==
    /\ ~IsNone(funcValue)
    /\ Val(outcome).kind = Val(funcValue).kind
    /\ Val(outcome).value = Val(funcValue).value

\* the call ends with TimeoutError(errMsg)
DeliversTimeoutError ==
    /\ Val(outcome).kind = "raise"
    /\ Val(outcome).value = TimeoutError(errMsg)

\* C7: a call either returns func's result (when func finishes before
\* timeout seconds elapse) or is interrupted by TimeoutError carrying errMsg
\* (when the alarm fires while func is still running); an exception raised
\* by func itself propagates unchanged.
C7_TimeoutContract ==
    tpc = "done" =>
        /\ (funcStatus = "returned" /\ finishedAt < timeout) => DeliversFuncValue
        /\ funcStatus = "raised" => DeliversFuncValue
        /\ DeliversTimeoutError =>
               (firedAt # "never" /\ funcStatus \notin {"returned", "raised"})
        /\ \/ funcStatus = "returned" /\ DeliversFuncValue
           \/ funcStatus = "raised" /\ DeliversFuncValue
           \/ DeliversTimeoutError

====
